---------------------------- MODULE Spec2Model ----------------------------
(***************************************************************************)
(* tsorb OccupancyModel: a one-day Markov chain of occupancy states at     *)
(* 10-minute resolution, sampled with a discrete sampler (DPD) that draws  *)
(* from the process-wide random source.  Two OccupancyModel instances are  *)
(* built over one DataExchange with the same resident count and variant;   *)
(* they share the random source.                                           *)
(*                                                                         *)
(* Vectors are sequences; the code's 0-based position k is element k+1.    *)
(***************************************************************************)
EXTENDS Integers, Sequences

(* ------------------------------ bounds -------------------------------- *)

\* number of 10-minute intervals of a day: range(0, 144) in run, scaled down
Intervals == 3

\* resident counts the instances are constructed with: 1..MaxResidents
MaxResidents == 2

\* number of states of the random source
RngMod == 3

\* seeds passed to set_seed: 0..MaxSeed
MaxSeed == 1

(* ----------------------------- constants ------------------------------ *)

\* the start distribution of the four state model indexes 7 x 7 classes
StartClasses == 7

\* number of chain states and row jump of the seven state model
SevenStates == 7

\* leading label columns of a transition row, dropped by [.., 2:]
LabelCols == 2

Instances == {1, 2}

DayTypes == {"wd", "we"}

None == << >>

Min(a, b) == IF a <= b THEN a ELSE b

Max(a, b) == IF a >= b THEN a ELSE b

Zeros(n) == [k \in 1..n |-> 0]

(* ------------------------ the data provider --------------------------- *)
(* A DataExchange is a record                                              *)
(*   keys  : the day types its tables are keyed by                         *)
(*   extra : probability columns a transition row has beyond numStates     *)
(*   dead  : every dead-th row of the transition tables, from row 2 on,    *)
(*           has probabilities that are all 0 (none if 0)                  *)
(*   mute  : day types whose start distribution is all 0                   *)
(*   cols  : resident counts 1..cols have a column in the start tables     *)

DataExchanges ==
  { [keys |-> {"wd", "we"}, extra |-> 0, dead |-> 0, mute |-> {},
     cols |-> MaxResidents],
    [keys |-> {"wd"},       extra |-> 1, dead |-> 0, mute |-> {},
     cols |-> MaxResidents],
    [keys |-> {"wd", "we"}, extra |-> 0, dead |-> 5, mute |-> {"we"},
     cols |-> 1] }

DayIx(day) == IF day = "wd" THEN 0 ELSE 1

\* number of chain states of a variant
NumStates(four, r) == IF four THEN (r + 1) * (r + 1) ELSE SevenStates

\* start indices that carry probability, in the 7 x 7 encoding
HotStart(d, day) ==
  IF day \in d.mute THEN {}
  ELSE IF day = "wd"
       THEN {0, 1, StartClasses, StartClasses + 1, 2 * StartClasses + 2}
  ELSE {1, StartClasses - 1}

\* self._start_state[day][:, residents - 1]
StartVector(d, four, r, day) ==
  IF four
  THEN [k \in 1..(StartClasses * StartClasses) |->
          IF (k - 1) \in HotStart(d, day) THEN 1 + ((k + r) % 2) ELSE 0]
  ELSE [k \in 1..SevenStates |->
          IF \E s \in HotStart(d, day) : s % StartClasses = k - 1 THEN 1 ELSE 0]

\* number of rows of the stacked transition table: one block per interval
NumRows(four, r) == Intervals * NumStates(four, r)

\* row rho (0-based) of self._occ_act_trans_data[day + str(residents)]:
\* two label columns, then the probability columns
TransRow(d, four, day, r, rho) ==
  [k \in 1..(LabelCols + NumStates(four, r) + d.extra) |->
     IF k = 1 THEN rho \div NumStates(four, r)
     ELSE IF k = 2 THEN rho % NumStates(four, r)
     ELSE IF d.dead > 0 /\ rho % d.dead = 2 THEN 0
     ELSE IF k > LabelCols + NumStates(four, r) THEN 2 * NumStates(four, r)
     ELSE (rho + 2 * (k - LabelCols - 1) + DayIx(day)) % 3]

\* act_transition[rho, 2:]: the probability columns of a row
Probabilities(whole) == SubSeq(whole, LabelCols + 1, Len(whole))

\* every row offers exactly numStates probability columns
WellFormed(d) == d.extra = 0

(* ------------------------ the random source --------------------------- *)

\* np.random.seed(seed): the generator state a seed determines
SeedState(seed) == (2 * seed + 1) % RngMod

\* generator state after one draw
NextRng(g) == (g + 1) % RngMod

\* the raw draw of generator state g, a fraction Random(g) / RngMod of [0, 1)
Random(g) == RngMod - 1 - g

(* ------------------------ the discrete sampler ------------------------ *)

\* the cumulative sums c with x added as the next weight
Extend(c, x) == Append(c, (IF c = << >> THEN 0 ELSE c[Len(c)]) + x)

RECURSIVE CumsumTo(_, _)
\* cumulative sums of the first n weights
CumsumTo(w, n) == IF n = 0 THEN << >> ELSE Extend(CumsumTo(w, n - 1), w[n])

\* DPD(w): the sampler of a weight vector, its cumulative sums
DPD(w) == CumsumTo(w, Len(w))

\* sum of all weights
Total(dpd) == IF dpd = << >> THEN 0 ELSE dpd[Len(dpd)]

\* smallest 0-based index whose cumulative sum exceeds u, for 0 <= u < Total
Sample(dpd, u) ==
  CHOOSE i \in 0..(Len(dpd) - 1) :
     /\ dpd[i + 1] > u
     /\ i = 0 \/ dpd[i] <= u

\* dpd.get_random_interval(): one draw from generator state g
get_random_interval(dpd, g) ==
  IF Total(dpd) = 0
  THEN [err |-> TRUE, ix |-> 0, rng |-> g]
  ELSE [err |-> FALSE,
        ix  |-> Sample(dpd, (Random(g) * Total(dpd)) \div RngMod),
        rng |-> NextRng(g)]

\* DPD(start_state), for every table of the data providers
StartDPD ==
  [d \in DataExchanges, four \in BOOLEAN, r \in 1..MaxResidents, day \in DayTypes |->
     DPD(StartVector(d, four, r, day))]

\* DPD(row) of every row of every transition table of the data providers
RowDPD ==
  [d \in DataExchanges, four \in BOOLEAN, r \in 1..MaxResidents, day \in DayTypes |->
     [rho \in 0..(NumRows(four, r) - 1) |->
        DPD(Probabilities(TransRow(d, four, day, r, rho)))]]

(* ------------------------------ state --------------------------------- *)

VARIABLES
  data,             \* self._data_ex, the DataExchange both instances use
  residents,        \* self._residents
  four_states,      \* self._four_states
  rng,              \* state of the process-wide random source
  seeded,           \* the seed, while no draw followed set_seed; else -1
  has_run,          \* self._has_run, per instance
  states,           \* self._states, per instance (None before the first run)
  occ_activity,     \* self.occ_activity, per instance
  occ_no_activity,  \* self.occ_no_activity, per instance
  first,            \* per instance: seed and day type of a seeded first run
  last              \* the most recent call and what it answered

vars == << data, residents, four_states, rng, seeded, has_run, states,
           occ_activity, occ_no_activity, first, last >>

config == << data, residents, four_states >>

series == << has_run, states, occ_activity, occ_no_activity >>

\* the record of a call: run fills start_ix, init and rows
Call(op, self, arg, outcome, value) ==
  [op |-> op, inst |-> self, arg |-> arg, outcome |-> outcome, value |-> value,
   chained |-> FALSE, start_ix |-> -1, init |-> -1, rows |-> << >>]

\* __init__
Init ==
  /\ data \in DataExchanges
  /\ residents \in 1..MaxResidents
  /\ four_states \in BOOLEAN
  /\ rng \in 0..(RngMod - 1)
  /\ seeded = -1
  /\ has_run = [i \in Instances |-> FALSE]
  /\ states = [i \in Instances |-> None]
  /\ occ_activity = [i \in Instances |-> Zeros(Intervals)]
  /\ occ_no_activity = [i \in Instances |-> Zeros(Intervals)]
  /\ first = [i \in Instances |-> None]
  /\ last = Call("init", 0, "", "ok", None)

(* ----------------------------- accessors ------------------------------ *)

\* the answer of property get_residents
get_residents_result(self) == [outcome |-> "ok", value |-> residents]

\* get_occ_no_activity with the variant checked before the has-run flag
get_occ_no_activity_variant_first(self) ==
  IF ~four_states THEN [outcome |-> "ConfigurationMismatch", value |-> None]
  ELSE IF ~has_run[self] THEN [outcome |-> "StateError", value |-> None]
  ELSE [outcome |-> "ok", value |-> occ_no_activity[self]]

\* the answer of property get_occ_no_activity
get_occ_no_activity_result(self) ==
  IF ~has_run[self] THEN [outcome |-> "StateError", value |-> None]
  ELSE IF ~four_states THEN [outcome |-> "ConfigurationMismatch", value |-> None]
  ELSE [outcome |-> "ok", value |-> occ_no_activity[self]]

\* get_occ_activity answering the other series
get_occ_activity_other_series(self) ==
  IF ~has_run[self] THEN [outcome |-> "StateError", value |-> None]
  ELSE [outcome |-> "ok", value |-> occ_no_activity[self]]

\* the answer of property get_occ_activity
get_occ_activity_result(self) ==
  IF ~has_run[self] THEN [outcome |-> "StateError", value |-> None]
  ELSE [outcome |-> "ok", value |-> occ_activity[self]]

get_residents(self) ==
  /\ last' = Call("get_residents", self, "", get_residents_result(self).outcome,
                  get_residents_result(self).value)
  /\ UNCHANGED << config, rng, seeded, series, first >>

get_occ_no_activity(self) ==
  /\ last' = Call("get_occ_no_activity", self, "",
                  get_occ_no_activity_result(self).outcome,
                  get_occ_no_activity_result(self).value)
  /\ UNCHANGED << config, rng, seeded, series, first >>

get_occ_activity(self) ==
  /\ last' = Call("get_occ_activity", self, "",
                  get_occ_activity_result(self).outcome,
                  get_occ_activity_result(self).value)
  /\ UNCHANGED << config, rng, seeded, series, first >>

(* ------------------------------ set_seed ------------------------------ *)

\* set_seed that leaves the random source as it is
set_seed_unused(seed) ==
  /\ rng' = rng
  /\ seeded' = seed
  /\ last' = Call("set_seed", 0, seed, "ok", None)
  /\ UNCHANGED << config, series, first >>

set_seed(seed) ==
  /\ rng' = SeedState(seed)
  /\ seeded' = seed
  /\ last' = Call("set_seed", 0, seed, "ok", None)
  /\ UNCHANGED << config, series, first >>

(* -------------------------------- run --------------------------------- *)

\* the tables for the day type and the resident count exist
HasTables(d, day, r) == day \in d.keys /\ r <= d.cols

\* num_row_jump
NumRowJump(four, r) == IF four THEN (r + 1) * (r + 1) ELSE SevenStates

\* the start index taken for the state as it is, in both variants
StartStateRaw(four, r, start_ix) == start_ix

\* the state a start index stands for
StartState(four, r, start_ix) ==
  IF four
  THEN (r + 1) * (start_ix \div StartClasses) + (start_ix % StartClasses)
  ELSE start_ix

\* the row position without the jump to the block of the interval
RowIndexFirstBlock(four, r, interval, state) == state

\* position of the transition row read at an interval
RowIndex(four, r, interval, state) == NumRowJump(four, r) * interval + state

RECURSIVE Loop(_, _, _, _, _, _, _, _, _)
RECURSIVE Advance(_, _, _, _, _, _, _, _, _, _)
\* the rest of one pass of the loop, the row at rho read and `draw` drawn from
\* it: states[interval] = state, then on to the next interval
Advance(d, four, day, r, interval, g, recorded, rows, rho, draw) ==
  IF draw.err
  THEN [outcome |-> "SamplingError", states |-> recorded,
        rows |-> Append(rows, rho), rng |-> g]
  ELSE Loop(d, four, day, r, interval + 1, draw.ix, draw.rng,
            [recorded EXCEPT ![interval + 1] = draw.ix], Append(rows, rho))

\* for interval in range(0, 144): from `interval` on, with the current state,
\* the generator state g, the states recorded and the rows read so far
Loop(d, four, day, r, interval, state, g, recorded, rows) ==
  IF interval >= Intervals
  THEN [outcome |-> "ok", states |-> recorded, rows |-> rows, rng |-> g]
  ELSE IF RowIndex(four, r, interval, state) >= NumRows(four, r)
  THEN [outcome |-> "IndexError", states |-> recorded, rows |-> rows, rng |-> g]
  ELSE Advance(d, four, day, r, interval, g, recorded, rows,
               RowIndex(four, r, interval, state),
               get_random_interval(
                 RowDPD[d, four, r, day][RowIndex(four, r, interval, state)], g))

\* the loop entered at interval 1, interval 0 keeping the start state
ChainFromOne(d, four, day, r, state, g) ==
  Loop(d, four, day, r, 1, state, g,
       [Zeros(Intervals) EXCEPT ![1] = state], << >>)

\* states[0] = state, then the loop over the whole day
Chain(d, four, day, r, state, g) ==
  Loop(d, four, day, r, 0, state, g,
       [Zeros(Intervals) EXCEPT ![1] = state], << >>)

\* the counts without the clipping
DecodeUnclipped(r, state) ==
  [activity |-> state % (r + 1),
   no_activity |-> (state \div (r + 1)) - (state % (r + 1))]

\* np.minimum(home, active) and np.maximum(home - active, 0) of one state
Decode(r, state) ==
  LET home   == state \div (r + 1)
      active == state % (r + 1)
  IN  [activity |-> Min(home, active), no_activity |-> Max(home - active, 0)]

\* the results saved without the has-run flag set
SavedFlagUnset(self, four, r, chain) ==
  [has_run |-> has_run[self],
   states |-> chain.states,
   occ_activity |->
     IF four THEN [k \in 1..Len(chain.states) |-> Decode(r, chain.states[k]).activity]
     ELSE chain.states,
   occ_no_activity |->
     IF four THEN [k \in 1..Len(chain.states) |-> Decode(r, chain.states[k]).no_activity]
     ELSE occ_no_activity[self]]

\* the instance after the results of a completed chain are saved
Saved(self, four, r, chain) ==
  [has_run |-> TRUE,
   states |-> chain.states,
   occ_activity |->
     IF four THEN [k \in 1..Len(chain.states) |-> Decode(r, chain.states[k]).activity]
     ELSE chain.states,
   occ_no_activity |->
     IF four THEN [k \in 1..Len(chain.states) |-> Decode(r, chain.states[k]).no_activity]
     ELSE occ_no_activity[self]]

\* the instance as it is
Kept(self) ==
  [has_run |-> has_run[self], states |-> states[self],
   occ_activity |-> occ_activity[self], occ_no_activity |-> occ_no_activity[self]]

\* the states recorded so far stored, and the flag set, though the run raised
RaisedStored(self, four, r, chain) ==
  [Kept(self) EXCEPT !.has_run = TRUE, !.states = chain.states]

\* the instance a run that raised leaves behind
Raised(self, four, r, chain) == Kept(self)

\* what a run that got no further than the table lookup or the start draw
\* answers
Failed(self, outcome, g) ==
  [outcome |-> outcome, after |-> Kept(self), rng |-> g,
   chained |-> has_run[self], start_ix |-> -1, init |-> -1, rows |-> << >>]

\* what a run answers whose chain ended: the results saved if it completed
Ended(self, start_ix, state, chain) ==
  [outcome |-> chain.outcome,
   after |-> IF chain.outcome = "ok"
             THEN Saved(self, four_states, residents, chain)
             ELSE Raised(self, four_states, residents, chain),
   rng |-> chain.rng,
   chained |-> has_run[self],
   start_ix |-> start_ix, init |-> state, rows |-> chain.rows]

\* the state the chain starts from: a first run's start draw, or the last
\* state of the run before
InitialState(self, start_ix) ==
  IF has_run[self]
  THEN states[self][Len(states[self])]
  ELSE StartState(four_states, residents, start_ix)

\* run from the start state on
Started(self, day, start_ix, state, g) ==
  Ended(self, start_ix, state, Chain(data, four_states, day, residents, state, g))

\* run after the start draw
Drawn(self, day, g, draw) ==
  IF draw.err
  THEN Failed(self, "SamplingError", g)
  ELSE Started(self, day, draw.ix, InitialState(self, draw.ix), draw.rng)

\* run(day_of_week) on instance self from generator state g: the outcome,
\* the instance afterwards, the generator state, and what it read
RunResult(self, day, g) ==
  IF ~HasTables(data, day, residents)
  THEN Failed(self, "LookupError", g)
  ELSE Drawn(self, day, g,
             get_random_interval(StartDPD[data, four_states, residents, day], g))

run(self, day) ==
  \E res \in {RunResult(self, day, rng)} :
      /\ has_run' = [has_run EXCEPT ![self] = res.after.has_run]
      /\ states' = [states EXCEPT ![self] = res.after.states]
      /\ occ_activity' = [occ_activity EXCEPT ![self] = res.after.occ_activity]
      /\ occ_no_activity' =
           [occ_no_activity EXCEPT ![self] = res.after.occ_no_activity]
      /\ rng' = res.rng
      /\ seeded' = IF res.rng = rng /\ res.start_ix = -1 THEN seeded ELSE -1
      /\ first' = [first EXCEPT ![self] =
                     IF res.outcome # "ok" THEN @
                     ELSE IF ~has_run[self] /\ seeded # -1
                          THEN << seeded, day >>
                          ELSE None]
      /\ last' = [Call("run", self, day, res.outcome, None) EXCEPT
                    !.chained = res.chained, !.start_ix = res.start_ix,
                    !.init = res.init, !.rows = res.rows]
      /\ UNCHANGED config

(* --------------------------- specification ---------------------------- *)

Next ==
  \/ \E self \in Instances, day \in DayTypes : run(self, day)
  \/ \E self \in Instances : get_occ_activity(self)
  \/ \E self \in Instances : get_occ_no_activity(self)
  \/ \E self \in Instances : get_residents(self)
  \/ \E seed \in 0..MaxSeed : set_seed(seed)

Spec == Init /\ [][Next]_vars

(* ------------------------------ claims -------------------------------- *)

\* the call recorded in `last` is a run on self that completed
Completed(call, self) ==
  call.op = "run" /\ call.inst = self /\ call.outcome = "ok"

\* the call recorded in `last` is a run on self that raised
Failing(call, self) ==
  call.op = "run" /\ call.inst = self /\ call.outcome # "ok"

\* the rows of block t of the stacked table, jump rows per block
Block(jump, t) == (jump * t)..(jump * (t + 1) - 1)

\* C1: continuity. Whenever a run completes on an instance that has run
\* before, the first recorded state of the new trajectory equals the last
\* recorded state of the previous one (stated for tables whose rows offer
\* exactly numStates probability columns).
C1_Continuity ==
  [][\A self \in Instances :
       (WellFormed(data) /\ has_run[self] /\ Completed(last', self))
          => states'[self][1] = states[self][Len(states[self])]]_vars

\* C2: on an instance on which no run has completed, get_occ_activity and
\* get_occ_no_activity fail with the state error in both variants,
\* get_residents answers the configured resident count, and none of the
\* three changes the has-run flag or the stored series.
C2_NeverRun ==
  [][\A self \in Instances :
       (~has_run[self] /\ last'.inst = self) =>
          /\ last'.op = "get_occ_activity"
               => last'.outcome = "StateError" /\ UNCHANGED series
          /\ last'.op = "get_occ_no_activity"
               => last'.outcome = "StateError" /\ UNCHANGED series
          /\ last'.op = "get_residents"
               => /\ last'.outcome = "ok"
                  /\ last'.value = residents
                  /\ UNCHANGED series]_vars

\* get_occ_no_activity was asked of a seven state instance that never ran
C2_Witness ==
  /\ last.op = "get_occ_no_activity"
  /\ ~four_states
  /\ ~has_run[last.inst]
  /\ last.outcome = "StateError"

\* C3: once a run has completed, a seven state instance answers
\* get_occ_no_activity with the configuration mismatch error and
\* get_occ_activity with the raw trajectory of the most recent run, entry by
\* entry; a four state instance answers both accessors.
C3_AfterRun ==
  \A self \in Instances :
    (has_run[self] /\ last.inst = self) =>
       /\ last.op = "get_occ_no_activity" =>
            IF four_states
            THEN last.outcome = "ok" /\ last.value = occ_no_activity[self]
            ELSE last.outcome = "ConfigurationMismatch"
       /\ last.op = "get_occ_activity" =>
            /\ last.outcome = "ok"
            /\ Len(last.value) = Intervals
            /\ four_states => last.value = occ_activity[self]
            /\ ~four_states =>
                 \A t \in 1..Intervals : last.value[t] = states[self][t]

\* a seven state instance that ran answered get_occ_activity with a
\* trajectory that is not all zero
C3_Witness ==
  /\ last.op = "get_occ_activity"
  /\ ~four_states
  /\ has_run[last.inst]
  /\ \E t \in 1..Intervals : last.value[t] > 0

\* every recorded state of the instance is a state of the chain
InRange(self) ==
  \A t \in 1..Len(states[self]) :
     states[self][t] \in 0..((residents + 1) * (residents + 1) - 1)

\* C4: decoding, four state variant. After a completed run whose states all
\* lie in [0, (residents+1)^2), at every interval the activity count is
\* min(home, active) and the no-activity count max(home - active, 0), with
\* home = floor(state / (residents+1)) and active = state mod (residents+1);
\* both counts and their sum lie in 0..residents.
C4_Decoding ==
  \A self \in Instances :
    (four_states /\ has_run[self] /\ InRange(self)) =>
       \A t \in 1..Intervals :
          LET home   == states[self][t] \div (residents + 1)
              active == states[self][t] % (residents + 1)
              act    == occ_activity[self][t]
              noact  == occ_no_activity[self][t]
          IN  /\ act = (IF home <= active THEN home ELSE active)
              /\ noact = (IF home - active >= 0 THEN home - active ELSE 0)
              /\ 0 <= act /\ act <= residents
              /\ 0 <= noact /\ noact <= residents
              /\ act + noact <= residents

\* a four state instance recorded an in-range state with more residents
\* active than at home
C4_Witness ==
  \E self \in Instances :
    /\ four_states /\ has_run[self] /\ InRange(self)
    /\ \E t \in 1..Intervals :
         states[self][t] % (residents + 1) > states[self][t] \div (residents + 1)

\* C5: range. With tables whose rows offer exactly numStates probability
\* columns, every recorded state of every completed run, first or chained,
\* lies in [0, numStates).
C5_Range ==
  \A self \in Instances :
    (WellFormed(data) /\ has_run[self]) =>
       /\ Len(states[self]) = Intervals
       /\ \A t \in 1..Intervals :
            /\ 0 <= states[self][t]
            /\ states[self][t] <
                 (IF four_states THEN (residents + 1) * (residents + 1) ELSE 7)

\* a chained run completed on well-formed tables
C5_Witness ==
  /\ WellFormed(data)
  /\ last.op = "run" /\ last.outcome = "ok" /\ last.chained

\* C6: determinism. Two instances of the same configuration whose first runs
\* each started right after set_seed with the same seed, for the same day
\* type, hold identical trajectories, activity and no-activity series.
C6_Determinism ==
  (first[1] # None /\ first[2] # None /\ first[1] = first[2]) =>
     /\ states[1] = states[2]
     /\ occ_activity[1] = occ_activity[2]
     /\ occ_no_activity[1] = occ_no_activity[2]

\* both instances completed a first run from the same seed and day type
C6_Witness ==
  /\ first[1] # None
  /\ first[1] = first[2]
  /\ has_run[1] /\ has_run[2]
  /\ \E t \in 1..Intervals : states[1][t] > 0

\* C7: row selection. In every completed run the state recorded at interval
\* t was drawn from the row at position numRowJump * t + currentState, with
\* numRowJump = (residents+1)^2 or 7, currentState the state recorded at
\* t - 1, or the initial state at t = 0; on a first run the initial state is
\* (residents+1) * floor(s/7) + (s mod 7) in the four state variant and s in
\* the seven state variant, s being the start index drawn.
C7_RowSelection ==
  \A self \in Instances :
    Completed(last, self) =>
       LET jump == IF four_states THEN (residents + 1) * (residents + 1) ELSE 7
           s    == last.start_ix
       IN  /\ Len(last.rows) = Intervals
           /\ \A t \in 0..(Intervals - 1) :
                /\ last.rows[t + 1] =
                     jump * t + (IF t = 0 THEN last.init ELSE states[self][t])
                /\ Probabilities(TransRow(data, four_states, last.arg, residents,
                                          last.rows[t + 1]))[states[self][t + 1] + 1] > 0
           /\ ~last.chained =>
                /\ StartVector(data, four_states, residents, last.arg)[s + 1] > 0
                /\ last.init = (IF four_states
                                THEN (residents + 1) * (s \div 7) + (s % 7)
                                ELSE s)

\* a first run of a four state instance completed from a start index whose
\* home class is not 0
C7_Witness ==
  /\ last.op = "run" /\ last.outcome = "ok" /\ ~last.chained
  /\ four_states
  /\ last.start_ix >= 7
  /\ last.rows[Intervals] >= (residents + 1) * (residents + 1) * (Intervals - 1)

\* C8: the has-run flag is false at construction, turns true only when a run
\* completes, and is never reset once true, whatever calls follow; every
\* completed run sets it and stores the trajectory it recorded and the
\* series decoded from it.
C8_Sticky ==
  /\ \A self \in Instances : ~has_run[self]
  /\ [][\A self \in Instances :
          /\ has_run[self] => has_run'[self]
          /\ (~has_run[self] /\ has_run'[self]) => Completed(last', self)
          /\ Completed(last', self) =>
               LET jump == IF four_states
                           THEN (residents + 1) * (residents + 1) ELSE 7
               IN  /\ has_run'[self]
                   /\ Len(states'[self]) = Intervals
                   /\ \A t \in 1..(Intervals - 1) :
                        states'[self][t] = last'.rows[t + 1] - jump * t
                   /\ IF four_states
                      THEN \A t \in 1..Intervals :
                             /\ occ_activity'[self][t] =
                                  Decode(residents, states'[self][t]).activity
                             /\ occ_no_activity'[self][t] =
                                  Decode(residents, states'[self][t]).no_activity
                      ELSE occ_activity'[self] = states'[self]]_vars

\* a run raised on an instance that had run, and the flag is still set
C8_Witness ==
  \E self \in Instances : Failing(last, self) /\ has_run[self]

\* the start index has both its classes within the resident count
WithinResidents(s) == s \div 7 <= residents /\ s % 7 <= residents

\* C9: with tables whose rows offer exactly numStates probability columns,
\* on every run that got past the start draw, a first run of a four state
\* instance starts from a state below (residents+1)^2, and the row read at
\* every interval t lies in block t of the stacked table.
C9_RowInBlock ==
  (WellFormed(data) /\ last.op = "run" /\ last.start_ix # -1) =>
     LET jump == IF four_states THEN (residents + 1) * (residents + 1) ELSE 7
     IN  /\ (four_states /\ ~last.chained) => last.init < jump
         /\ \A t \in 0..(Len(last.rows) - 1) : last.rows[t + 1] \in Block(jump, t)

\* C9, amended: a first run of a four state instance whose start index s has
\* floor(s/7) <= residents and s mod 7 <= residents starts from a state below
\* (residents+1)^2 and reads its first row in block 0; and with tables whose
\* rows offer exactly numStates probability columns the row read at every
\* interval t lies in block t, except at interval 0 of a four state first
\* run whose start index has a class above the resident count.
C9_RowInBlockAmended ==
  (last.op = "run" /\ last.start_ix # -1) =>
     LET jump == IF four_states THEN (residents + 1) * (residents + 1) ELSE 7
         s    == last.start_ix
     IN  /\ (four_states /\ ~last.chained /\ WithinResidents(s))
            => /\ last.init < jump
               /\ Len(last.rows) >= 1 => last.rows[1] \in Block(jump, 0)
         /\ WellFormed(data) =>
              \A t \in 0..(Len(last.rows) - 1) :
                 \/ t = 0 /\ four_states /\ ~last.chained /\ ~WithinResidents(s)
                 \/ last.rows[t + 1] \in Block(jump, t)

\* a first run of a four state instance read all its rows, from a start
\* index of home class 1 or more within the resident count
C9_Witness ==
  /\ last.op = "run" /\ ~last.chained /\ four_states
  /\ last.start_ix >= 7
  /\ WithinResidents(last.start_ix)
  /\ WellFormed(data)
  /\ Len(last.rows) = Intervals

\* C10: a run that raises, at the table lookup, at the start draw or at any
\* interval, leaves the has-run flag, the stored trajectory and the activity
\* and no-activity series of the instance as they were.
C10_FailedRunKeeps ==
  [][\A self \in Instances :
       Failing(last', self) =>
          /\ has_run'[self] = has_run[self]
          /\ states'[self] = states[self]
          /\ occ_activity'[self] = occ_activity[self]
          /\ occ_no_activity'[self] = occ_no_activity[self]]_vars

\* a run raised at a later interval on an instance that had run
C10_Witness ==
  \E self \in Instances :
    /\ Failing(last, self)
    /\ has_run[self]
    /\ Len(last.rows) >= 2

=============================================================================
